---- MODULE Spec2Model ----
(***************************************************************************)
(* Client-side data synchronisation layer of the AV dashboard              *)
(* (frontend/src/api/client.js): the process-wide REQUEST_CACHE, the       *)
(* cache-aside orchestrator api(), getFromCache() and prefetch().          *)
(*                                                                         *)
(* JavaScript strings are modelled as sequences of string fragments:       *)
(* template-literal concatenation is \o and String.includes is the         *)
(* contiguous-subsequence test.  JavaScript values are records             *)
(* [type, repr]; ToBoolean is Truthy.  An invocation of api() is split at  *)
(* its suspension points: everything up to the call of fetch is one step,  *)
(* everything after the response has been delivered is one step (the code  *)
(* touches no shared state between `await fetch` and `await res.json()` /  *)
(* `await res.text()`).                                                    *)
(***************************************************************************)
EXTENDS Integers, Sequences, FiniteSets, Bags, TLC

VARIABLES
    cache,   \* REQUEST_CACHE: a Map, here a function whose DOMAIN is the set of keys
    calls,   \* the invocations of api() suspended on the network: a bag of requests in flight
    last,    \* the most recent step of the client and what its caller observed
    flights, \* the requests of `calls` with what the server has answered so far
    gen,     \* the number of mutations the server has applied
    sync,    \* bookkeeping on the age of cached and returned data
    page,    \* the mounted page, its React state and what it has loaded
    raws     \* the requests in flight that pages made with fetch() directly

syncVars == <<flights, gen, sync>>

pageVars == <<page, raws>>

vars == <<cache, calls, last, flights, gen, sync, page, raws>>

\* Number of invocations of api() that may be suspended at the same time.
MaxInFlight == 2

\* Bound: how many mutations the server applies.
MaxGen == 2

----------------------------------------------------------------------------
(* Strings                                                                 *)

BASE == <<"http://localhost:8000">>

PBusiness == <<"/business/", "42">>
POpInfo == <<"/", "operational-info", "/by-business/", "42">>

\* The request paths the callers pass to api(), getFromCache() and prefetch().
Paths == {PBusiness, POpInfo}

\* listServices(id, 100, 0) and createService, as the Services page calls them
PServices == <<"/services/", "?business_id=", "42", "&limit=", "100", "&offset=", "0">>
PServiceNew == <<"/services/">>

\* listCoupons(id, 20, 0), and the coupon that handleUpdate and handleDelete
\* of the Coupons page address with fetch()
PCoupons == <<"/coupons/", "?business_id=", "42", "&limit=", "20", "&offset=", "0">>
PCoupon == <<"/coupons/", "7">>

\* listMedia(id, 100, 0)
PMedia == <<"/media/", "?business_id=", "42", "&limit=", "100", "&offset=", "0">>

\* The key the JSON-LD page hydrates from and the URL it fetches
PJsonLD == <<"/jsonld", "?business_id=", "42">>

\* The URLs DashboardHome fetches besides `/business/${id}`
PServicesRaw == <<"/services", "?business_id=", "42", "&limit=", "100", "&offset=", "0">>
PVisibility == <<"/visibility/result", "?business_id=", "42", "&limit=", "1", "&offset=", "0">>

\* The same resources of a second business, for a route whose id changes
PBusinessB == <<"/business/", "43">>
PServicesB == <<"/services/", "?business_id=", "43", "&limit=", "100", "&offset=", "0">>
PMediaB == <<"/media/", "?business_id=", "43", "&limit=", "100", "&offset=", "0">>

\* `${BASE}/media/upload`, the target of uploadMediaFile
PUpload == <<"/media/upload">>

\* String.prototype.includes
Includes(s, needle) ==
    \E i \in 1..(Len(s) - Len(needle) + 1) :
        SubSeq(s, i, i + Len(needle) - 1) = needle

\* const url = `${BASE}${path}`
CacheKey(path) == BASE \o path

----------------------------------------------------------------------------
(* JavaScript values                                                       *)

Undefined == [type |-> "undefined", repr |-> ""]
Null == [type |-> "null", repr |-> ""]
False == [type |-> "boolean", repr |-> "false"]
Zero == [type |-> "number", repr |-> "0"]
EmptyString == [type |-> "string", repr |-> ""]
Acme == [type |-> "object", repr |-> "{name:Acme}"]
EmptyArray == [type |-> "array", repr |-> "[]"]
OneItem == [type |-> "array", repr |-> "[{visibility_score:7}]"]
Bolt == [type |-> "object", repr |-> "{name:Bolt}"]
OtherItem == [type |-> "array", repr |-> "[{name:Bolt}]"]
User == [type |-> "object", repr |-> "{user_id:7}"]
Feeds == [type |-> "array", repr |-> "[{jsonld_data:{}}]"]

\* The values a JSON body can decode to.
JsonValues == {Acme, EmptyArray, OneItem, Bolt, OtherItem, User, Feeds, Null,
               False, Zero, EmptyString}

\* The falsy ones among them.
FalsyScalars == {Null, False, Zero, EmptyString}

\* ToBoolean, as applied by the || operator.
Truthy(v) ==
    CASE v.type \in {"undefined", "null"} -> FALSE
      [] v.type = "boolean" -> v.repr = "true"
      [] v.type = "number" -> v.repr \notin {"0", "NaN"}
      [] v.type = "string" -> v.repr # ""
      [] OTHER -> TRUE

\* a || b
Or(a, b) == IF Truthy(a) THEN a ELSE b

\* Response.json(): the decoded body, or a SyntaxError for a body that is
\* not JSON text (the empty body included).
JsonParse(text) ==
    CASE text = "{\"name\":\"Acme\"}" -> [ok |-> TRUE, data |-> Acme]
      [] text = "[]" -> [ok |-> TRUE, data |-> EmptyArray]
      [] text = "[{\"visibility_score\":7}]" -> [ok |-> TRUE, data |-> OneItem]
      [] text = "{\"name\":\"Bolt\"}" -> [ok |-> TRUE, data |-> Bolt]
      [] text = "[{\"name\":\"Bolt\"}]" -> [ok |-> TRUE, data |-> OtherItem]
      [] text = "{\"user_id\":7}" -> [ok |-> TRUE, data |-> User]
      [] text = "[{\"jsonld_data\":\"{}\"}]" -> [ok |-> TRUE, data |-> Feeds]
      [] text = "null" -> [ok |-> TRUE, data |-> Null]
      [] text = "false" -> [ok |-> TRUE, data |-> False]
      [] text = "0" -> [ok |-> TRUE, data |-> Zero]
      [] text = "\"\"" -> [ok |-> TRUE, data |-> EmptyString]
      [] OTHER -> [ok |-> FALSE, data |-> Undefined]

----------------------------------------------------------------------------
(* The network                                                             *)

\* The JSON bodies the server sends: an object, an array, and the scalars
\* null and 0 (0 stands for the falsy scalars 0, false and "", which the
\* client treats alike).
JsonTexts == {"{\"name\":\"Acme\"}", "[]", "null", "0"}

\* What fetch() can produce for one request: a rejection (connection
\* error) or a response with a status and a body text.
NetworkOutcomes ==
    {[net |-> "error", status |-> 0, text |-> ""]}
    \cup {[net |-> "response", status |-> 200, text |-> t] : t \in JsonTexts \cup {"<html>"}}
    \cup {[net |-> "response", status |-> 204, text |-> ""],
          [net |-> "response", status |-> 404, text |-> "Not Found"],
          [net |-> "response", status |-> 500, text |-> "Internal Server Error"]}

\* Response.ok
Ok(status) == status \in 200..299

----------------------------------------------------------------------------
(* REQUEST_CACHE                                                           *)

EmptyMap == [k \in {} |-> Undefined]

\* REQUEST_CACHE.has(url)
Has(url) == url \in DOMAIN cache

\* REQUEST_CACHE.get(url)
Get(url) == IF url \in DOMAIN cache THEN cache[url] ELSE Undefined

\* Mutation: set() drops every other entry.
MapSet_Only(m, url, data) == [k \in {url} |-> data]

\* REQUEST_CACHE.set(url, data), as a value
MapSet(m, url, data) ==
    [k \in DOMAIN m \cup {url} |-> IF k = url THEN data ELSE m[k]]

\* Mutation: getFromCache looks the path up without the base address.
getFromCache_NoBase(path) == Or(Get(path), Null)

\* export function getFromCache(path)
getFromCache(path) == Or(Get(CacheKey(path)), Null)

----------------------------------------------------------------------------
(* api(): the orchestrator                                                 *)

\* What a caller passes as init.method ("undefined": the property is absent).
InitMethods == {"undefined", "POST", "PATCH", "DELETE"}

\* const method = init.method || 'GET'
MethodOf(init) == IF init.method \in {"undefined", ""} THEN "GET" ELSE init.method

\* ['POST', 'PATCH', 'DELETE']
MutatingMethods == {"POST", "PATCH", "DELETE"}

\* Mutation: the cache is never consulted, every GET goes to the network.
IsCacheHit_Never(method, url) == FALSE

\* Mutation: the method test is dropped, every cached URL is a hit.
IsCacheHit_AnyMethod(method, url) == Has(url)

\* if (method === 'GET' && REQUEST_CACHE.has(url))
IsCacheHit(method, url) == method = "GET" /\ Has(url)

\* Mutation: the path test is dropped, every 404 is taken as "optional".
IsOptional404_AnyPath(status, path) == status = 404

\* if (res.status === 404 && path.includes('operational-info'))
IsOptional404(status, path) == status = 404 /\ Includes(path, <<"operational-info">>)

\* Mutation: the response of a mutation is stored under its URL after the
\* clear.
CacheAfterSuccess_StoreMutation(method, url, data) ==
    IF method = "GET" THEN MapSet(cache, url, data)
    ELSE IF method \in MutatingMethods THEN MapSet(EmptyMap, url, data)
    ELSE cache

\* Mutation: a mutation leaves the cache as it is.
CacheAfterSuccess_NoClear(method, url, data) ==
    IF method = "GET" THEN MapSet(cache, url, data) ELSE cache

\* Mutation: a GET stores its response only under a key that is absent.
CacheAfterSuccess_FirstWins(method, url, data) ==
    LET stored == IF method = "GET" /\ ~Has(url) THEN MapSet(cache, url, data)
                  ELSE cache
    IN  IF method \in MutatingMethods THEN EmptyMap ELSE stored

\* Steps 4 and 5 of api(): the cache after a decoded success response.
CacheAfterSuccess(method, url, data) ==
    LET stored == IF method = "GET" THEN MapSet(cache, url, data) ELSE cache
    IN  IF method \in MutatingMethods THEN EmptyMap ELSE stored

NoError == [name |-> "", status |-> 0, text |-> ""]
NoRes == [net |-> "none", status |-> 0, text |-> ""]

\* The synchronous part of api(path, init), up to the call of fetch: a hit
\* returns the entry, a miss issues one request and suspends.
ApiBegin(path, init, via) ==
    LET url == CacheKey(path)
        method == MethodOf(init)
    IN  IF IsCacheHit(method, url)
        THEN [hit |-> TRUE, value |-> Get(url), sent |-> 0,
              suspended |-> EmptyBag]
        ELSE [hit |-> FALSE, value |-> Undefined, sent |-> 1,
              suspended |-> SetToBag({[path |-> path, method |-> method,
                                       via |-> via, sent |-> 1]})]

\* Mutation: the absent result of an optional 404 is memoized under the key.
ApiOutcome_Memoize404(path, method, r) ==
    LET url == CacheKey(path)
        parsed == JsonParse(r.text)
    IN  IF r.net = "error"
        THEN [kind |-> "rejected", value |-> Undefined,
              error |-> [name |-> "TypeError", status |-> 0, text |-> ""],
              cache |-> cache]
        ELSE IF ~Ok(r.status)
        THEN IF IsOptional404(r.status, path)
             THEN [kind |-> "resolved", value |-> Null, error |-> NoError,
                   cache |-> MapSet(cache, url, Null)]
             ELSE [kind |-> "rejected", value |-> Undefined,
                   error |-> [name |-> "Error", status |-> r.status, text |-> r.text],
                   cache |-> cache]
        ELSE IF ~parsed.ok
        THEN [kind |-> "rejected", value |-> Undefined,
              error |-> [name |-> "SyntaxError", status |-> 0, text |-> ""],
              cache |-> cache]
        ELSE [kind |-> "resolved", value |-> parsed.data, error |-> NoError,
              cache |-> CacheAfterSuccess(method, url, parsed.data)]

\* Mutation: a mutation clears the cache as soon as fetch has settled,
\* whatever the outcome.
ApiOutcome_ClearFirst(path, method, r) ==
    LET url == CacheKey(path)
        parsed == JsonParse(r.text)
        before == IF method \in MutatingMethods THEN EmptyMap ELSE cache
    IN  IF r.net = "error"
        THEN [kind |-> "rejected", value |-> Undefined,
              error |-> [name |-> "TypeError", status |-> 0, text |-> ""],
              cache |-> before]
        ELSE IF ~Ok(r.status)
        THEN IF IsOptional404(r.status, path)
             THEN [kind |-> "resolved", value |-> Null, error |-> NoError,
                   cache |-> before]
             ELSE [kind |-> "rejected", value |-> Undefined,
                   error |-> [name |-> "Error", status |-> r.status, text |-> r.text],
                   cache |-> before]
        ELSE IF ~parsed.ok
        THEN [kind |-> "rejected", value |-> Undefined,
              error |-> [name |-> "SyntaxError", status |-> 0, text |-> ""],
              cache |-> before]
        ELSE [kind |-> "resolved", value |-> parsed.data, error |-> NoError,
              cache |-> CacheAfterSuccess(method, url, parsed.data)]

\* The rest of api() once fetch has settled with r: how the promise
\* settles and what the cache becomes.
ApiOutcome(path, method, r) ==
    LET url == CacheKey(path)
        parsed == JsonParse(r.text)
    IN  IF r.net = "error"
        THEN [kind |-> "rejected", value |-> Undefined,
              error |-> [name |-> "TypeError", status |-> 0, text |-> ""],
              cache |-> cache]
        ELSE IF ~Ok(r.status)
        THEN IF IsOptional404(r.status, path)
             THEN [kind |-> "resolved", value |-> Null, error |-> NoError,
                   cache |-> cache]
             ELSE [kind |-> "rejected", value |-> Undefined,
                   error |-> [name |-> "Error", status |-> r.status, text |-> r.text],
                   cache |-> cache]
        ELSE IF ~parsed.ok
        THEN [kind |-> "rejected", value |-> Undefined,
              error |-> [name |-> "SyntaxError", status |-> 0, text |-> ""],
              cache |-> cache]
        ELSE [kind |-> "resolved", value |-> parsed.data, error |-> NoError,
              cache |-> CacheAfterSuccess(method, url, parsed.data)]

\* Mutation: prefetch without its `.catch(() => {})`.
Delivered_NoCatch(via, kind) == kind

\* What the code that made the call observes of the settled promise:
\* prefetch discards the value and swallows the rejection, `.catch(() => {})`.
Delivered(via, kind) == IF via = "prefetch" THEN "nothing" ELSE kind

\* One more invocation may suspend.
CanSuspend == BagCardinality(calls) < MaxInFlight

\* A caller invokes api(path, init).
Api(path, init) ==
    LET b == ApiBegin(path, init, "api")
    IN  /\ CanSuspend
        /\ calls' = calls (+) b.suspended
        /\ last' = [ev |-> IF b.hit THEN "hit" ELSE "start",
                    path |-> path, method |-> MethodOf(init), via |-> "api",
                    kind |-> IF b.hit THEN "resolved" ELSE "pending",
                    value |-> b.value, error |-> NoError, res |-> NoRes,
                    sent |-> b.sent,
                    seen |-> IF b.hit THEN "resolved" ELSE "pending"]
        /\ UNCHANGED cache

\* Mutation: a failed request is issued once more before the caller is told.
ApiResume_Retry(call, r) ==
    LET o == ApiOutcome(call.path, call.method, r)
        again == o.kind = "rejected" /\ call.sent < 2
    IN  /\ BagIn(call, calls)
        /\ call.via # "upload"
        /\ cache' = o.cache
        /\ calls' = IF again
                    THEN (calls (-) SetToBag({call}))
                         (+) SetToBag({[call EXCEPT !.sent = call.sent + 1]})
                    ELSE calls (-) SetToBag({call})
        /\ last' = [ev |-> IF again THEN "retry" ELSE "settle",
                    path |-> call.path, method |-> call.method,
                    via |-> call.via, kind |-> IF again THEN "pending" ELSE o.kind,
                    value |-> o.value, error |-> o.error, res |-> r,
                    sent |-> IF again THEN call.sent + 1 ELSE call.sent,
                    seen |-> IF again THEN "pending" ELSE Delivered(call.via, o.kind)]

\* fetch settles with r and the suspended invocation runs to its end.
ApiResume(call, r) ==
    LET o == ApiOutcome(call.path, call.method, r)
    IN  /\ BagIn(call, calls)
        /\ call.via # "upload"
        /\ cache' = o.cache
        /\ calls' = calls (-) SetToBag({call})
        /\ last' = [ev |-> "settle", path |-> call.path, method |-> call.method,
                    via |-> call.via, kind |-> o.kind, value |-> o.value,
                    error |-> o.error, res |-> r, sent |-> call.sent,
                    seen |-> Delivered(call.via, o.kind)]

\* Mutation: the guard of prefetch is inverted.
PrefetchGuard_Inverted(url) == Has(url)

\* if (!REQUEST_CACHE.has(url))
PrefetchGuard(url) == ~Has(url)

\* export const prefetch = (path) => ...
prefetch(path) ==
    LET url == CacheKey(path)
        b == ApiBegin(path, [method |-> "GET"], "prefetch")
        issued == PrefetchGuard(url)
    IN  /\ CanSuspend
        /\ calls' = IF issued THEN calls (+) b.suspended ELSE calls
        /\ last' = [ev |-> "prefetch", path |-> path, method |-> "GET",
                    via |-> "prefetch", kind |-> "returned", value |-> Undefined,
                    error |-> NoError, res |-> NoRes,
                    sent |-> IF issued THEN b.sent ELSE 0,
                    seen |-> "returned"]
        /\ UNCHANGED cache

\* Mutation: a miss is remembered under the key as null.
Hydrate_MemoizeMiss(path) ==
    /\ cache' = IF Has(CacheKey(path)) THEN cache
                ELSE MapSet(cache, CacheKey(path), Null)
    /\ last' = [ev |-> "peek", path |-> path, method |-> "", via |-> "hydrate",
                kind |-> "returned", value |-> getFromCache(path),
                error |-> NoError, res |-> NoRes, sent |-> 0,
                seen |-> "returned"]
    /\ UNCHANGED calls

\* A component reads the cache with getFromCache(path), as the useState
\* initialisers of the pages do.
Hydrate(path) ==
    /\ last' = [ev |-> "peek", path |-> path, method |-> "", via |-> "hydrate",
                kind |-> "returned", value |-> getFromCache(path),
                error |-> NoError, res |-> NoRes, sent |-> 0,
                seen |-> "returned"]
    /\ UNCHANGED <<cache, calls>>

----------------------------------------------------------------------------
(* uploadMediaFile(): the multipart upload, outside the cache-aside path   *)

\* The request uploadMediaFile has in flight.
UploadCall == [path |-> PUpload, method |-> "POST", via |-> "upload", sent |-> 1]

\* uploadMediaFile up to `await fetch`: the request is issued whatever the
\* cache holds.
uploadMediaFile ==
    /\ CanSuspend
    /\ calls' = calls (+) SetToBag({UploadCall})
    /\ last' = [ev |-> "start", path |-> PUpload, method |-> "POST",
                via |-> "upload", kind |-> "pending", value |-> Undefined,
                error |-> NoError, res |-> NoRes, sent |-> 1, seen |-> "pending"]
    /\ UNCHANGED cache

\* Mutation: the cache is cleared only once the body has been decoded.
UploadOutcome_ClearAfterDecode(r) ==
    LET parsed == JsonParse(r.text)
    IN  IF r.net = "error"
        THEN [kind |-> "rejected", value |-> Undefined,
              error |-> [name |-> "TypeError", status |-> 0, text |-> ""],
              cache |-> cache]
        ELSE IF ~Ok(r.status)
        THEN [kind |-> "rejected", value |-> Undefined,
              error |-> [name |-> "Error", status |-> r.status, text |-> r.text],
              cache |-> cache]
        ELSE IF ~parsed.ok
        THEN [kind |-> "rejected", value |-> Undefined,
              error |-> [name |-> "SyntaxError", status |-> 0, text |-> ""],
              cache |-> cache]
        ELSE [kind |-> "resolved", value |-> parsed.data, error |-> NoError,
              cache |-> EmptyMap]

\* The rest of uploadMediaFile once fetch has settled with r:
\* REQUEST_CACHE.clear() comes before `return res.json()`.
UploadOutcome(r) ==
    LET parsed == JsonParse(r.text)
    IN  IF r.net = "error"
        THEN [kind |-> "rejected", value |-> Undefined,
              error |-> [name |-> "TypeError", status |-> 0, text |-> ""],
              cache |-> cache]
        ELSE IF ~Ok(r.status)
        THEN [kind |-> "rejected", value |-> Undefined,
              error |-> [name |-> "Error", status |-> r.status, text |-> r.text],
              cache |-> cache]
        ELSE IF ~parsed.ok
        THEN [kind |-> "rejected", value |-> Undefined,
              error |-> [name |-> "SyntaxError", status |-> 0, text |-> ""],
              cache |-> EmptyMap]
        ELSE [kind |-> "resolved", value |-> parsed.data, error |-> NoError,
              cache |-> EmptyMap]

\* fetch settles with r and the suspended upload runs to its end.
UploadResume(r) ==
    LET o == UploadOutcome(r)
    IN  /\ BagIn(UploadCall, calls)
        /\ cache' = o.cache
        /\ calls' = calls (-) SetToBag({UploadCall})
        /\ last' = [ev |-> "settle", path |-> PUpload, method |-> "POST",
                    via |-> "upload", kind |-> o.kind, value |-> o.value,
                    error |-> o.error, res |-> r, sent |-> 1, seen |-> o.kind]

----------------------------------------------------------------------------
(* The state machine                                                       *)

NoStep == [ev |-> "init", path |-> <<>>, method |-> "", via |-> "",
           kind |-> "", value |-> Undefined, error |-> NoError, res |-> NoRes,
           sent |-> 0, seen |-> ""]

\* No page is mounted.  `loaded` is what the pages have put on display from
\* a response of the server since the cache was last cleared.
NoPage == [route |-> "none", st |-> EmptyMap, loaded |-> EmptyMap]

\* The bookkeeping of `sync`, none of which the client itself keeps:
\*   okGen   the newest mutation the client has seen succeed,
\*   fresh   for each cached key, how many mutations the server had applied
\*           when it produced the entry,
\*   cont    the mutation whose awaiting caller is about to run on (-1: none),
\* and, about the step just taken: stamp, the age of the value it returned;
\* over and overGen, the entry it replaced and that entry's age; after, the
\* mutation its caller had awaited before calling; old, whether the cache
\* was cleared while the call was in flight.
NoSync == [okGen |-> 0, fresh |-> EmptyMap, cont |-> -1, stamp |-> -1,
           over |-> Undefined, overGen |-> -1, after |-> -1, old |-> FALSE]

Init ==
    /\ cache = EmptyMap
    /\ calls = EmptyBag
    /\ last = NoStep
    /\ flights = EmptyBag
    /\ gen = 0
    /\ sync = NoSync
    /\ page = NoPage
    /\ raws = EmptyBag

Next ==
    \/ \E p \in Paths, m \in InitMethods :
         Api(p, [method |-> m]) /\ UNCHANGED <<syncVars, pageVars>>
    \/ \E call \in BagToSet(calls), r \in NetworkOutcomes :
         ApiResume(call, r) /\ UNCHANGED <<syncVars, pageVars>>
    \/ \E p \in Paths : prefetch(p) /\ UNCHANGED <<syncVars, pageVars>>
    \/ uploadMediaFile /\ UNCHANGED <<syncVars, pageVars>>
    \/ \E r \in NetworkOutcomes : UploadResume(r) /\ UNCHANGED <<syncVars, pageVars>>
    \/ \E p \in Paths : Hydrate(p) /\ UNCHANGED <<syncVars, pageVars>>

Spec == Init /\ [][Next]_vars

TypeOK ==
    /\ DOMAIN cache \subseteq {CacheKey(p) : p \in Paths}
    /\ \A k \in DOMAIN cache : cache[k] \in JsonValues
    /\ BagCardinality(calls) <= MaxInFlight
    /\ \A call \in BagToSet(calls) :
         /\ call.path \in Paths \cup {PUpload}
         /\ call.method \in {"GET"} \cup MutatingMethods
         /\ call.via \in {"api", "prefetch", "upload"}

----------------------------------------------------------------------------
(* The Services page against a server whose data changes.  Each request   *)
(* of `calls` is followed in `flights` from the call of fetch to the       *)
(* response, and every response carries the number of mutations the        *)
(* server had applied when it produced it.                                 *)

\* What the server answers in this part: a connection error, two bodies
\* and a success without a body.
SyncOutcomes ==
    {r \in NetworkOutcomes :
        \/ r.net = "error"
        \/ r.status = 204
        \/ r.status = 200 /\ r.text \in {"[]", "{\"name\":\"Acme\"}"}}

\* The requests an invocation of api() has just issued, not yet answered.
Departures(suspended, after) ==
    BagOfAll(LAMBDA c : [call |-> c, r |-> NoRes, gen |-> -1, old |-> FALSE,
                         after |-> after],
             suspended)

\* What no step has unless it says so.
Quiet == [sync EXCEPT !.cont = -1, !.stamp = -1, !.over = Undefined,
                      !.overGen = -1, !.after = -1, !.old = FALSE]

\* refresh() of the Services page: `await listServices(id, 100, 0)`, up to
\* the suspension.  `after` is the mutation the caller awaited just before,
\* -1 if none.
refresh(after) ==
    LET b == ApiBegin(PServices, [method |-> "undefined"], "api")
    IN  /\ Api(PServices, [method |-> "undefined"])
        /\ flights' = flights (+) Departures(b.suspended, after)
        /\ sync' = [Quiet EXCEPT
                       !.stamp = IF b.hit THEN sync.fresh[CacheKey(PServices)]
                                 ELSE -1,
                       !.after = after]
        /\ UNCHANGED gen

\* useEffect(() => { refresh() }, [id])
ServicesEffect == sync.cont = -1 /\ refresh(-1)

\* onCreate up to `await createService(...)`.
onCreate ==
    LET b == ApiBegin(PServiceNew, [method |-> "POST"], "api")
    IN  /\ sync.cont = -1
        /\ Api(PServiceNew, [method |-> "POST"])
        /\ flights' = flights (+) Departures(b.suspended, -1)
        /\ sync' = Quiet
        /\ UNCHANGED gen

\* The server answers one request.  A mutation answered with a success
\* status has been applied.
Serve(f, r) ==
    LET applied == f.call.method \in MutatingMethods /\ r.net = "response"
                   /\ Ok(r.status)
        now == IF applied THEN gen + 1 ELSE gen
    IN  /\ sync.cont = -1
        /\ BagIn(f, flights)
        /\ f.r = NoRes
        /\ now <= MaxGen
        /\ gen' = now
        /\ flights' = (flights (-) SetToBag({f}))
                       (+) SetToBag({[f EXCEPT !.r = r, !.gen = now]})
        /\ last' = [NoStep EXCEPT !.ev = "serve"]
        /\ sync' = Quiet
        /\ UNCHANGED <<cache, calls>>

\* Mutation: a response that was in flight when the cache was cleared is
\* not written into the cache.
SyncResume_DropLate(f) ==
    LET o == ApiOutcome(f.call.path, f.call.method, f.r)
        url == CacheKey(f.call.path)
        rest == flights (-) SetToBag({f})
        after == IF f.old THEN cache ELSE o.cache
        cleared == f.call.method \in MutatingMethods /\ o.kind = "resolved"
        written == /\ f.call.method = "GET"
                   /\ o.kind = "resolved"
                   /\ ~f.old
        kept == [k \in DOMAIN after \cap DOMAIN sync.fresh |-> sync.fresh[k]]
    IN  /\ sync.cont = -1
        /\ BagIn(f, flights)
        /\ f.r # NoRes
        /\ BagIn(f.call, calls)
        /\ cache' = after
        /\ calls' = calls (-) SetToBag({f.call})
        /\ last' = [ev |-> "settle", path |-> f.call.path,
                    method |-> f.call.method, via |-> f.call.via,
                    kind |-> o.kind, value |-> o.value, error |-> o.error,
                    res |-> f.r, sent |-> f.call.sent,
                    seen |-> Delivered(f.call.via, o.kind)]
        /\ flights' = IF cleared
                       THEN BagOfAll(LAMBDA g : [g EXCEPT !.old = TRUE], rest)
                       ELSE rest
        /\ sync' = [okGen |-> IF cleared /\ f.gen > sync.okGen
                              THEN f.gen ELSE sync.okGen,
                    fresh |-> IF written THEN MapSet(kept, url, f.gen) ELSE kept,
                    cont |-> IF cleared THEN f.gen ELSE -1,
                    stamp |-> IF o.kind = "resolved" THEN f.gen ELSE -1,
                    over |-> Get(url),
                    overGen |-> IF url \in DOMAIN sync.fresh
                                THEN sync.fresh[url] ELSE -1,
                    after |-> f.after,
                    old |-> f.old]
        /\ UNCHANGED gen

\* The response of one request reaches the client and the suspended
\* invocation of api() runs to its end.  The caller that awaited
\* createService runs on before any other response is handled.
SyncResume(f) ==
    LET o == ApiOutcome(f.call.path, f.call.method, f.r)
        url == CacheKey(f.call.path)
        rest == flights (-) SetToBag({f})
        cleared == f.call.method \in MutatingMethods /\ o.kind = "resolved"
        written == /\ f.call.method = "GET"
                   /\ o.kind = "resolved"
                   /\ url \in DOMAIN o.cache
                   /\ o.cache[url] = o.value
        kept == [k \in DOMAIN o.cache \cap DOMAIN sync.fresh |-> sync.fresh[k]]
    IN  /\ sync.cont = -1
        /\ BagIn(f, flights)
        /\ f.r # NoRes
        /\ ApiResume(f.call, f.r)
        /\ flights' = IF cleared
                       THEN BagOfAll(LAMBDA g : [g EXCEPT !.old = TRUE], rest)
                       ELSE rest
        /\ sync' = [okGen |-> IF cleared /\ f.gen > sync.okGen
                              THEN f.gen ELSE sync.okGen,
                    fresh |-> IF written THEN MapSet(kept, url, f.gen) ELSE kept,
                    cont |-> IF cleared THEN f.gen ELSE -1,
                    stamp |-> IF o.kind = "resolved" THEN f.gen ELSE -1,
                    over |-> Get(url),
                    overGen |-> IF url \in DOMAIN sync.fresh
                                THEN sync.fresh[url] ELSE -1,
                    after |-> f.after,
                    old |-> f.old]
        /\ UNCHANGED gen

\* onCreate after `await createService(...)` has resolved: refresh().
onCreateThen == sync.cont # -1 /\ refresh(sync.cont)

SyncNext ==
    \/ ServicesEffect /\ UNCHANGED pageVars
    \/ onCreate /\ UNCHANGED pageVars
    \/ \E f \in BagToSet(flights), r \in SyncOutcomes :
         Serve(f, r) /\ UNCHANGED pageVars
    \/ \E f \in BagToSet(flights) : SyncResume(f) /\ UNCHANGED pageVars
    \/ onCreateThen /\ UNCHANGED pageVars

SpecSync == Init /\ [][SyncNext]_vars

SyncTypeOK ==
    /\ DOMAIN cache \subseteq {CacheKey(PServices)}
    /\ DOMAIN sync.fresh = DOMAIN cache
    /\ gen \in 0..MaxGen
    /\ sync.okGen \in 0..gen
    /\ BagCardinality(calls) <= MaxInFlight
    /\ calls = BagOfAll(LAMBDA f : f.call, flights)

----------------------------------------------------------------------------
(* The pages: Coupons, Dashboard, the JSON-LD page and DashboardHome.      *)
(* A page's useState initialisers and its mount effect form one step.      *)
(* The user moves to another page only when no request is in flight.       *)

\* The URLs that name a collection.
ListPaths == {PCoupons, PServices, PServicesRaw, PMedia, PJsonLD, PVisibility}

\* What the server answers in this part: a connection error, a failure
\* status, or the resource, a list of one item under the URL of a
\* collection and an object elsewhere.
PageOutcomes(path) ==
    {[net |-> "error", status |-> 0, text |-> ""],
     [net |-> "response", status |-> 200,
      text |-> IF path \in ListPaths THEN "[{\"visibility_score\":7}]"
               ELSE "{\"name\":\"Acme\"}"],
     [net |-> "response", status |-> 500, text |-> "Internal Server Error"]}

\* Array.isArray(v)
IsArray(v) == v.type = "array"

\* v.length of an array
Length(v) == IF v = EmptyArray THEN 0 ELSE 1

\* Array.isArray(v) ? v : []
ArrayOr(v) == IF IsArray(v) THEN v ELSE EmptyArray

\* Array.isArray(v) ? v.length : 0
CountOf(v) == IF IsArray(v) THEN Length(v) ELSE 0

\* Array.isArray(v) && v.length > 0 ? v[0].visibility_score : dash, the
\* placeholder the page shows for "no score"
ScoreOf(v) == IF IsArray(v) /\ Length(v) > 0 THEN "7" ELSE "dash"

\* prev.filter(c => c.coupon_id !== couponId), for the coupon on display;
\* on a state that is not an array the call throws and the state stays.
Filter(v) == IF IsArray(v) THEN EmptyArray ELSE v

\* No request is in flight.
Idle == calls = EmptyBag /\ raws = EmptyBag

\* One more request may be issued.
PageCanSuspend == BagCardinality(calls) + BagCardinality(raws) < MaxInFlight

\* A request made with fetch() directly.
Raw(who, method, path) == [who |-> who, method |-> method, path |-> path]

\* The step of a page, as `last` records it.
PageStep(ev, via, path, method, value, r, sent) ==
    [NoStep EXCEPT !.ev = ev, !.via = via, !.path = path, !.method = method,
                   !.value = value, !.res = r, !.sent = sent]

\* Coupons mounts: useState(() => getFromCache(...)), then the effect calls
\* loadCoupons(), whose listCoupons() either hits the cache, and then
\* setCoupons(data) follows at once, or suspends.
MountCoupons ==
    LET b == ApiBegin(PCoupons, [method |-> "undefined"], "loadCoupons")
        hydrated == ArrayOr(getFromCache(PCoupons))
        coupons == IF b.hit THEN b.value ELSE hydrated
    IN  /\ Idle
        /\ calls' = calls (+) b.suspended
        /\ page' = [page EXCEPT !.route = "coupons",
                                !.st = [coupons |-> coupons]]
        /\ last' = PageStep("mount", "coupons", PCoupons, "GET", coupons,
                            NoRes, b.sent)
        /\ UNCHANGED <<cache, raws>>

\* handleUpdate up to `await fetch(..., { method: 'PATCH' })`.
handleUpdate ==
    /\ page.route = "coupons"
    /\ PageCanSuspend
    /\ raws' = raws (+) SetToBag({Raw("handleUpdate", "PATCH", PCoupon)})
    /\ last' = PageStep("start", "handleUpdate", PCoupon, "PATCH", Undefined,
                        NoRes, 1)
    /\ UNCHANGED <<cache, calls, page>>

\* Mutation: handleUpdate clears the cache before it reloads the list.
handleUpdateResume_Clears(r) ==
    LET raw == Raw("handleUpdate", "PATCH", PCoupon)
        ok == r.net = "response" /\ Ok(r.status)
    IN  /\ BagIn(raw, raws)
        /\ raws' = raws (-) SetToBag({raw})
        /\ cache' = IF ok THEN EmptyMap ELSE cache
        /\ calls' = IF ok
                    THEN calls (+) SetToBag({[path |-> PCoupons, method |-> "GET",
                                              via |-> "loadCoupons", sent |-> 1]})
                    ELSE calls
        /\ last' = IF ok
                   THEN PageStep("start", "handleUpdate", PCoupons, "GET",
                                 Undefined, r, 1)
                   ELSE PageStep("settle", "handleUpdate", PCoupon, "PATCH",
                                 Undefined, r, 1)
        /\ UNCHANGED page

\* handleUpdate after the fetch has settled: on a failure an alert, on a
\* success status loadCoupons(); the cache is not touched.
handleUpdateResume(r) ==
    LET raw == Raw("handleUpdate", "PATCH", PCoupon)
        ok == r.net = "response" /\ Ok(r.status)
        b == ApiBegin(PCoupons, [method |-> "undefined"], "loadCoupons")
    IN  /\ BagIn(raw, raws)
        /\ raws' = raws (-) SetToBag({raw})
        /\ calls' = IF ok THEN calls (+) b.suspended ELSE calls
        /\ page' = IF ok /\ b.hit
                   THEN [page EXCEPT !.st = [coupons |-> b.value]]
                   ELSE page
        /\ last' = IF ok
                   THEN PageStep(IF b.hit THEN "hit" ELSE "start",
                                 "handleUpdate", PCoupons, "GET", b.value, r,
                                 b.sent)
                   ELSE PageStep("settle", "handleUpdate", PCoupon, "PATCH",
                                 Undefined, r, 1)
        /\ UNCHANGED cache

\* handleDelete up to `await fetch(..., { method: 'DELETE' })`.
handleDelete ==
    /\ page.route = "coupons"
    /\ PageCanSuspend
    /\ raws' = raws (+) SetToBag({Raw("handleDelete", "DELETE", PCoupon)})
    /\ last' = PageStep("start", "handleDelete", PCoupon, "DELETE", Undefined,
                        NoRes, 1)
    /\ UNCHANGED <<cache, calls, page>>

\* handleDelete after the fetch has settled: whatever the status, the
\* coupon is filtered out of the state; the cache is not touched.
handleDeleteResume(r) ==
    LET raw == Raw("handleDelete", "DELETE", PCoupon)
    IN  /\ BagIn(raw, raws)
        /\ raws' = raws (-) SetToBag({raw})
        /\ page' = IF r.net = "response"
                   THEN [page EXCEPT !.st = [coupons |-> Filter(page.st.coupons)]]
                   ELSE page
        /\ last' = PageStep("settle", "handleDelete", PCoupon, "DELETE",
                            Undefined, r, 1)
        /\ UNCHANGED <<cache, calls>>

\* Dashboard mounts with a user logged in: three useState initialisers,
\* then the effect calls getBusiness, listServices and listMedia; each one
\* that hits the cache passes the entry to its setter at once.
MountDashboard ==
    LET b1 == ApiBegin(PBusiness, [method |-> "undefined"], "dashboard")
        b2 == ApiBegin(PServices, [method |-> "undefined"], "dashboard")
        b3 == ApiBegin(PMedia, [method |-> "undefined"], "dashboard")
        business == IF b1.hit THEN b1.value ELSE Or(getFromCache(PBusiness), Null)
        services == IF b2.hit THEN b2.value
                    ELSE Or(getFromCache(PServices), EmptyArray)
        media == IF b3.hit THEN b3.value ELSE Or(getFromCache(PMedia), EmptyArray)
    IN  /\ Idle
        /\ calls' = calls (+) b1.suspended (+) b2.suspended (+) b3.suspended
        /\ page' = [page EXCEPT !.route = "dashboard",
                                !.st = [business |-> business,
                                        services |-> services,
                                        media |-> media]]
        /\ last' = PageStep("mount", "dashboard", PBusiness, "GET", business,
                            NoRes, b1.sent + b2.sent + b3.sent)
        /\ UNCHANGED <<cache, raws>>

\* What a page does with the settled promise of its call of api():
\* setCoupons(data) in loadCoupons, `.then(setBusiness)` and the like in
\* Dashboard; a rejection is logged.
Then(call, o) ==
    IF o.kind # "resolved" THEN page.st
    ELSE IF call.via = "loadCoupons" THEN [page.st EXCEPT !.coupons = o.value]
    ELSE IF call.path = PBusiness THEN [page.st EXCEPT !.business = o.value]
    ELSE IF call.path = PServices THEN [page.st EXCEPT !.services = o.value]
    ELSE [page.st EXCEPT !.media = o.value]

\* The response to a call of api() that a page made arrives.
PageApiResume(call, r) ==
    /\ call.via \in {"loadCoupons", "dashboard"}
    /\ ApiResume(call, r)
    /\ page' = [page EXCEPT !.st = Then(call, ApiOutcome(call.path, call.method, r))]
    /\ UNCHANGED raws

\* The JSON-LD page mounts: feeds from the cache, loading, then the effect
\* calls loadFeeds() up to its `await fetch(...)`.
MountJsonLD ==
    LET feeds == ArrayOr(getFromCache(PJsonLD))
    IN  /\ Idle
        /\ raws' = raws (+) SetToBag({Raw("loadFeeds", "GET", PJsonLD)})
        /\ page' = [page EXCEPT !.route = "jsonld",
                                !.st = [feeds |-> feeds, loading |-> TRUE]]
        /\ last' = PageStep("mount", "jsonld", PJsonLD, "GET", feeds, NoRes, 1)
        /\ UNCHANGED <<cache, calls>>

\* loadFeeds() after the fetch has settled: setFeeds on a success status
\* with a JSON body, setLoading(false) in any case; the cache is not
\* touched.
loadFeedsResume(r) ==
    LET raw == Raw("loadFeeds", "GET", PJsonLD)
        parsed == JsonParse(r.text)
        got == r.net = "response" /\ Ok(r.status) /\ parsed.ok
        feeds == IF got THEN ArrayOr(parsed.data) ELSE page.st.feeds
    IN  /\ BagIn(raw, raws)
        /\ raws' = raws (-) SetToBag({raw})
        /\ page' = [page EXCEPT
                      !.st = [feeds |-> feeds, loading |-> FALSE],
                      !.loaded = IF got THEN MapSet(@, "feeds", feeds) ELSE @]
        /\ last' = PageStep("settle", "loadFeeds", PJsonLD, "GET", feeds, r, 1)
        /\ UNCHANGED <<cache, calls>>

\* DashboardHome mounts: three useState initialisers, then the effect calls
\* loadProfile(), loadServices() and loadVisibility() up to their fetch.
MountHome ==
    LET st == [profileOk |-> Truthy(getFromCache(PBusiness)),
               serviceCount |-> CountOf(getFromCache(PServices)),
               visibilityScore |-> ScoreOf(getFromCache(PVisibility))]
    IN  /\ Idle
        /\ raws' = raws (+) SetToBag({Raw("loadProfile", "GET", PBusiness),
                                      Raw("loadServices", "GET", PServicesRaw),
                                      Raw("loadVisibility", "GET", PVisibility)})
        /\ page' = [page EXCEPT !.route = "home", !.st = st]
        /\ last' = PageStep("mount", "home", PBusiness, "GET", Undefined,
                            NoRes, 3)
        /\ UNCHANGED <<cache, calls>>

\* loadProfile(), loadServices() or loadVisibility() after the fetch has
\* settled; the cache is not touched.
HomeResume(raw, r) ==
    LET parsed == JsonParse(r.text)
        got == r.net = "response" /\ Ok(r.status) /\ parsed.ok
        field == CASE raw.who = "loadProfile" -> "profileOk"
                   [] raw.who = "loadServices" -> "serviceCount"
                   [] OTHER -> "visibilityScore"
        set == IF raw.who = "loadProfile" THEN r.net = "response" ELSE got
        value == CASE raw.who = "loadProfile" -> Ok(r.status)
                   [] raw.who = "loadServices" -> CountOf(parsed.data)
                   [] OTHER -> ScoreOf(parsed.data)
    IN  /\ raw.who \in {"loadProfile", "loadServices", "loadVisibility"}
        /\ BagIn(raw, raws)
        /\ raws' = raws (-) SetToBag({raw})
        /\ page' = IF set
                   THEN [page EXCEPT
                           !.st[field] = value,
                           !.loaded = IF Ok(r.status) THEN MapSet(@, field, value)
                                      ELSE @]
                   ELSE page
        /\ last' = PageStep("settle", raw.who, raw.path, "GET", Undefined, r, 1)
        /\ UNCHANGED <<cache, calls>>

\* The media page uploads a file.
PageUpload == PageCanSuspend /\ uploadMediaFile /\ UNCHANGED pageVars

\* The upload settles; a cleared cache ends what the pages had loaded.
PageUploadResume(r) ==
    /\ UploadResume(r)
    /\ page' = [page EXCEPT !.loaded = IF r.net = "response" /\ Ok(r.status)
                                       THEN EmptyMap ELSE @]
    /\ UNCHANGED raws

PagesNext ==
    \/ MountCoupons /\ UNCHANGED syncVars
    \/ handleUpdate /\ UNCHANGED syncVars
    \/ \E r \in PageOutcomes(PCoupon) :
         handleUpdateResume(r) /\ UNCHANGED syncVars
    \/ handleDelete /\ UNCHANGED syncVars
    \/ \E r \in PageOutcomes(PCoupon) :
         handleDeleteResume(r) /\ UNCHANGED syncVars
    \/ MountDashboard /\ UNCHANGED syncVars
    \/ \E call \in BagToSet(calls) : \E r \in PageOutcomes(call.path) :
         PageApiResume(call, r) /\ UNCHANGED syncVars
    \/ MountJsonLD /\ UNCHANGED syncVars
    \/ \E r \in PageOutcomes(PJsonLD) :
         loadFeedsResume(r) /\ UNCHANGED syncVars
    \/ MountHome /\ UNCHANGED syncVars
    \/ \E raw \in BagToSet(raws) : \E r \in PageOutcomes(raw.path) :
         HomeResume(raw, r) /\ UNCHANGED syncVars
    \/ PageUpload /\ UNCHANGED syncVars
    \/ \E r \in PageOutcomes(PUpload) :
         PageUploadResume(r) /\ UNCHANGED syncVars

SpecPages == Init /\ [][PagesNext]_vars

PagesTypeOK ==
    /\ page.route \in {"none", "coupons", "dashboard", "jsonld", "home"}
    /\ \A k \in DOMAIN cache : cache[k] \in JsonValues
    /\ BagCardinality(calls) <= 3
    /\ BagCardinality(raws) <= 3

----------------------------------------------------------------------------
(* The views that stay mounted while their route parameter changes, and    *)
(* the forms: Profile, Register, BusinessDetail, Directory, Dashboard and  *)
(* BusinessProfile.  A function a component defines closes over the state  *)
(* of the render that created it; a call of api() made from an effect      *)
(* carries that state as `env`, since the code after its `await` reads it. *)

\* The business ids a route can name.
Ids == {"42", "43"}

\* `/business/${id}` and the two collections listed with (id, 100, 0)
BusinessPath(id) == <<"/business/", id>>
ServicesPath(id) ==
    <<"/services/", "?business_id=", id, "&limit=", "100", "&offset=", "0">>
MediaPath(id) ==
    <<"/media/", "?business_id=", id, "&limit=", "100", "&offset=", "0">>

\* The paths that name a collection.
IsListPath(path) == Includes(path, <<"?business_id=">>)

\* What the server holds under a path: business 42 is Acme, business 43 is
\* Bolt, and their collections hold one item each.
BodyOf(path) ==
    IF Includes(path, <<"43">>)
    THEN IF IsListPath(path) THEN "[{\"name\":\"Bolt\"}]" ELSE "{\"name\":\"Bolt\"}"
    ELSE IF IsListPath(path) THEN "[{\"visibility_score\":7}]"
         ELSE "{\"name\":\"Acme\"}"

\* What the server answers in this part: a connection error, the resource,
\* or a failure status.
ViewOutcomes(path) ==
    {[net |-> "error", status |-> 0, text |-> ""],
     [net |-> "response", status |-> 200, text |-> BodyOf(path)],
     [net |-> "response", status |-> 500, text |-> "Internal Server Error"]}

\* The call of api() that has suspended, with the state its caller closed
\* over.
Capture(suspended, env) ==
    BagOfAll(LAMBDA c : [path |-> c.path, method |-> c.method, via |-> c.via,
                         sent |-> c.sent, env |-> env],
             suspended)

\* function toEditable(b): every field is read with `b?.x || ''`.
toEditable(b) ==
    [type |-> "object",
     repr |-> CASE b = Acme -> "{name:Acme,published:false}"
                [] b = Bolt -> "{name:Bolt,published:false}"
                [] OTHER -> "{name:,published:false}"]

\* The form after the user has typed into a field.
Typed == [type |-> "object", repr |-> "{name:typed,published:false}"]

\* if (!editing) setForm(toEditable(data))
SetFormOnLoad(editing, form, data) ==
    IF ~editing THEN toEditable(data) ELSE form

\* loadBusiness() of the render with state st, for route id: up to
\* `await getBusiness(id)` on a miss, to its end on a hit.
loadBusiness(st, id) ==
    LET b == ApiBegin(BusinessPath(id), [method |-> "undefined"], "loadBusiness")
        env == [editing |-> st.editing, business |-> st.business]
        begun == [st EXCEPT !.id = id,
                            !.loading = IF ~Truthy(st.business) THEN TRUE ELSE @,
                            !.error = ""]
    IN  [suspended |-> Capture(b.suspended, env),
         sent |-> b.sent,
         st |-> IF b.hit
                THEN [begun EXCEPT !.business = b.value,
                                   !.form = SetFormOnLoad(st.editing, @, b.value),
                                   !.loading = FALSE]
                ELSE begun]

\* Profile mounts: the useState initialisers, then the effect calls
\* loadBusiness().
MountProfile ==
    LET cachedBusiness == getFromCache(PBusiness)
        st == [id |-> "42",
               business |-> Or(cachedBusiness, Null),
               form |-> IF Truthy(cachedBusiness) THEN toEditable(cachedBusiness)
                        ELSE Null,
               editing |-> FALSE,
               loading |-> ~Truthy(cachedBusiness),
               error |-> ""]
        l == loadBusiness(st, "42")
    IN  /\ Idle
        /\ calls' = calls (+) l.suspended
        /\ page' = [page EXCEPT !.route = "profile", !.st = l.st]
        /\ last' = PageStep("mount", "profile", PBusiness, "GET", l.st.business,
                            NoRes, l.sent)
        /\ UNCHANGED <<cache, raws>>

\* The route of the mounted Profile changes to another id: the component
\* keeps its state and the effect, whose dependency is [id], calls the
\* loadBusiness() of the current render.
ProfileRoute(id) ==
    LET l == loadBusiness(page.st, id)
    IN  /\ page.route = "profile"
        /\ id # page.st.id
        /\ PageCanSuspend
        /\ calls' = calls (+) l.suspended
        /\ page' = [page EXCEPT !.st = l.st]
        /\ last' = PageStep("route", "profile", BusinessPath(id), "GET",
                            l.st.business, NoRes, l.sent)
        /\ UNCHANGED <<cache, raws>>

\* The view or the form is on display: neither the loading text nor the
\* placeholder for a missing business.
ProfileShown ==
    /\ page.route = "profile"
    /\ ~page.st.loading
    /\ Truthy(page.st.business)

\* onClick={() => setEditing(true)} of the Edit button
startEditing ==
    /\ ProfileShown
    /\ ~page.st.editing
    /\ page' = [page EXCEPT !.st.editing = TRUE]
    /\ last' = PageStep("click", "startEditing", <<>>, "", Undefined, NoRes, 0)
    /\ UNCHANGED <<cache, calls, raws>>

\* function onChange(key, value), from an input of the form
onChange ==
    /\ ProfileShown
    /\ page.st.editing
    /\ page' = [page EXCEPT !.st.form = Typed]
    /\ last' = PageStep("input", "onChange", <<>>, "", Typed, NoRes, 0)
    /\ UNCHANGED <<cache, calls, raws>>

\* function onCancel()
onCancel ==
    /\ ProfileShown
    /\ page.st.editing
    /\ page' = [page EXCEPT !.st.form = toEditable(page.st.business),
                            !.st.editing = FALSE,
                            !.st.error = ""]
    /\ last' = PageStep("click", "onCancel", <<>>, "", Undefined, NoRes, 0)
    /\ UNCHANGED <<cache, calls, raws>>

\* loadBusiness() after getBusiness(id) has settled: the try block, the
\* catch block and the finally block, with the `editing` and `business` of
\* the render that made the call.
loadBusinessResume(call, r) ==
    LET o == ApiOutcome(call.path, call.method, r)
    IN  /\ call.via = "loadBusiness"
        /\ ApiResume(call, r)
        /\ page' = [page EXCEPT
                      !.st = IF o.kind = "resolved"
                             THEN [@ EXCEPT
                                     !.business = o.value,
                                     !.form = SetFormOnLoad(call.env.editing, @,
                                                            o.value),
                                     !.loading = FALSE]
                             ELSE [@ EXCEPT
                                     !.error = IF ~Truthy(call.env.business)
                                               THEN "Failed to load business profile."
                                               ELSE @,
                                     !.loading = FALSE]]
        /\ UNCHANGED raws

\* createUser posts to '/users/'; getBusinessByOwner reads
\* `/business/by-owner/${ownerId}`.
PUsers == <<"/users/">>
ByOwnerPath(ownerId) == <<"/business/by-owner/", ownerId>>

\* user.user_id and business.business_id, as template literals print them;
\* the property of a value that has none is undefined.
UserIdOf(v) == IF v = User THEN "7" ELSE "undefined"
BusinessIdOf(v) ==
    CASE v = Acme -> "42"
      [] v = Bolt -> "43"
      [] OTHER -> "undefined"

\* Reading a property of v throws a TypeError.
NoProperties(v) == v.type \in {"undefined", "null"}

\* What the server answers to the requests of the registration: a
\* connection error, the resource (the new user, the business of the
\* owner), the bodies `null` and `0`, or a failure status.
RegisterOutcomes(path) ==
    {[net |-> "error", status |-> 0, text |-> ""],
     [net |-> "response", status |-> 200,
      text |-> IF path = PUsers THEN "{\"user_id\":7}" ELSE "{\"name\":\"Acme\"}"],
     [net |-> "response", status |-> 200, text |-> "null"],
     [net |-> "response", status |-> 200, text |-> "0"],
     [net |-> "response", status |-> 500, text |-> "Internal Server Error"]}

\* No call of login() and no call of navigate() has been made.
NoSession == [userId |-> "", businessId |-> ""]
NoRoute == <<>>

\* Register mounts.
MountRegister ==
    /\ Idle
    /\ page' = [page EXCEPT !.route = "register",
                            !.st = [error |-> "", session |-> NoSession,
                                    navigated |-> NoRoute]]
    /\ last' = PageStep("mount", "register", <<>>, "", Undefined, NoRes, 0)
    /\ UNCHANGED <<cache, calls, raws>>

\* The catch block of handleSubmit.
RegistrationFailed(st) ==
    [suspended |-> EmptyBag,
     st |-> [st EXCEPT !.error = "Registration failed. Please try again."]]

\* handleSubmit from `login(user.user_id, business.business_id)` on.
SessionInit(st, user, business) ==
    IF NoProperties(business)
    THEN RegistrationFailed(st)
    ELSE [suspended |-> EmptyBag,
          st |-> [st EXCEPT
                    !.session = [userId |-> UserIdOf(user),
                                 businessId |-> BusinessIdOf(business)],
                    !.navigated = <<"/dashboard/", BusinessIdOf(business)>>]]

\* handleSubmit from `if (business)` on: step 3 up to
\* `await updateBusiness(...)`, or straight on to the session.
ProfileInit(st, user, business) ==
    IF Truthy(business)
    THEN [suspended |->
              Capture(ApiBegin(BusinessPath(BusinessIdOf(business)),
                               [method |-> "PATCH"], "updateBusiness").suspended,
                      [user |-> user, business |-> business]),
          st |-> st]
    ELSE SessionInit(st, user, business)

\* handleSubmit from `getBusinessByOwner(user.user_id)` on: reading
\* user_id of null throws; a hit of the cache goes on at once.
Retrieval(st, user) ==
    LET b == ApiBegin(ByOwnerPath(UserIdOf(user)), [method |-> "undefined"],
                      "getBusinessByOwner")
    IN  IF NoProperties(user) THEN RegistrationFailed(st)
        ELSE IF b.hit THEN ProfileInit(st, user, b.value)
        ELSE [suspended |-> Capture(b.suspended,
                                    [user |-> user, business |-> Undefined]),
              st |-> st]

\* handleSubmit up to `await createUser(...)`, or, with a required field
\* left empty, to its early return.
handleSubmit(valid) ==
    LET b == ApiBegin(PUsers, [method |-> "POST"], "createUser")
    IN  /\ page.route = "register"
        /\ PageCanSuspend
        /\ calls' = IF valid
                    THEN calls (+) Capture(b.suspended,
                                           [user |-> Undefined,
                                            business |-> Undefined])
                    ELSE calls
        /\ page' = IF valid THEN page
                   ELSE [page EXCEPT !.st.error = "Please fill all required fields."]
        /\ last' = PageStep(IF valid THEN "start" ELSE "invalid", "handleSubmit",
                            PUsers, "POST", Undefined, NoRes,
                            IF valid THEN 1 ELSE 0)
        /\ UNCHANGED <<cache, raws>>

\* handleSubmit after one of its three requests has settled.
handleSubmitResume(call, r) ==
    LET o == ApiOutcome(call.path, call.method, r)
        st == page.st
        go == IF o.kind # "resolved" THEN RegistrationFailed(st)
              ELSE IF call.via = "createUser" THEN Retrieval(st, o.value)
              ELSE IF call.via = "getBusinessByOwner"
                   THEN ProfileInit(st, call.env.user, o.value)
              ELSE SessionInit(st, call.env.user, call.env.business)
    IN  /\ call.via \in {"createUser", "getBusinessByOwner", "updateBusiness"}
        /\ BagIn(call, calls)
        /\ cache' = o.cache
        /\ calls' = (calls (-) SetToBag({call})) (+) go.suspended
        /\ page' = [page EXCEPT !.st = go.st]
        /\ last' = [ev |-> "settle", path |-> call.path, method |-> call.method,
                    via |-> call.via, kind |-> o.kind, value |-> o.value,
                    error |-> o.error, res |-> r, sent |-> call.sent,
                    seen |-> Delivered(call.via, o.kind)]
        /\ UNCHANGED raws

\* listCoupons(id, 100, 0), as BusinessDetail calls it
PCoupons100 == <<"/coupons/", "?business_id=", "42", "&limit=", "100", "&offset=", "0">>

\* The five requests of loadFullProfile, by the state each one feeds.
DetailFields == {"business", "hours", "media", "services", "coupons"}
DetailPath(field) ==
    CASE field = "business" -> PBusiness
      [] field = "hours" -> POpInfo
      [] field = "media" -> PMedia
      [] field = "services" -> PServices
      [] OTHER -> PCoupons100
FieldOf(path) == CHOOSE f \in DetailFields : DetailPath(f) = path

\* `|| null` and `|| []` of the initialisers, `() => null` and `() => []`
\* of the catch handlers
Fallback(field) == IF field \in {"business", "hours"} THEN Null ELSE EmptyArray

\* Mutation: no request of the Promise.all has a catch handler.
Degrade_NoCatch(field, o) ==
    IF o.kind = "resolved"
    THEN [rejects |-> FALSE, value |-> o.value, degraded |-> FALSE]
    ELSE [rejects |-> TRUE, value |-> Undefined, degraded |-> FALSE]

\* What a settled request hands to the Promise.all: getBusiness(id) its
\* own outcome, the other four their value or, rejected, the fallback of
\* their catch handler.
Degrade(field, o) ==
    IF o.kind = "resolved"
    THEN [rejects |-> FALSE, value |-> o.value, degraded |-> FALSE]
    ELSE IF field = "business"
    THEN [rejects |-> TRUE, value |-> Undefined, degraded |-> FALSE]
    ELSE [rejects |-> FALSE, value |-> Fallback(field), degraded |-> TRUE]

\* A string literal, as a value.
Str(text) == [type |-> "string", repr |-> text]

\* JSON.parse(jsonFeeds[0].jsonld_data): an object, or a SyntaxError for
\* an item that carries no JSON text.
EmptyObject == [type |-> "object", repr |-> "{}"]
JsonLdOf(feeds) ==
    IF feeds = Feeds THEN [ok |-> TRUE, data |-> EmptyObject]
    ELSE [ok |-> FALSE, data |-> Undefined]

\* What the server answers to the fetch of the JSON-LD feeds: a connection
\* error, a list with a feed, a list whose item carries no JSON-LD text, or
\* a failure status.
JsonLdOutcomes ==
    {[net |-> "error", status |-> 0, text |-> ""],
     [net |-> "response", status |-> 200, text |-> "[{\"jsonld_data\":\"{}\"}]"],
     [net |-> "response", status |-> 200, text |-> "[{\"visibility_score\":7}]"],
     [net |-> "response", status |-> 500, text |-> "Internal Server Error"]}

\* loadFullProfile once the Promise.all has resolved with `got`: the five
\* setters; the fetch of the JSON-LD feeds is then in flight.
Fulfilled(st, got, degraded) ==
    [st EXCEPT !.business = got["business"], !.hours = got["hours"],
               !.media = got["media"], !.services = got["services"],
               !.coupons = got["coupons"],
               !.run = [phase |-> "jsonld", got |-> got, degraded |-> degraded]]

\* BusinessDetail mounts: the useState initialisers, then the effect calls
\* loadFullProfile(), whose five calls of api() each hit the cache or
\* suspend.
MountDetail ==
    LET b == [f \in DetailFields |->
                ApiBegin(DetailPath(f), [method |-> "undefined"], "loadFullProfile")]
        hits == {f \in DetailFields : b[f].hit}
        got == [f \in hits |-> b[f].value]
        business == Or(getFromCache(PBusiness), Null)
        st == [business |-> business,
               hours |-> Or(getFromCache(POpInfo), Null),
               media |-> Or(getFromCache(PMedia), EmptyArray),
               services |-> Or(getFromCache(PServices), EmptyArray),
               coupons |-> Or(getFromCache(PCoupons100), EmptyArray),
               jsonLdData |-> Null,
               loading |-> ~Truthy(business),
               error |-> Null,
               run |-> [phase |-> "all", got |-> got, degraded |-> {}]]
    IN  /\ Idle
        /\ calls' = b["business"].suspended (+) b["hours"].suspended
                    (+) b["media"].suspended (+) b["services"].suspended
                    (+) b["coupons"].suspended
        /\ raws' = IF hits = DetailFields
                   THEN SetToBag({Raw("loadFullProfile", "GET", PJsonLD)})
                   ELSE raws
        /\ page' = [page EXCEPT
                      !.route = "detail",
                      !.st = IF hits = DetailFields THEN Fulfilled(st, got, {})
                             ELSE st]
        /\ last' = PageStep("mount", "detail", PBusiness, "GET", business, NoRes,
                            Cardinality(DetailFields \ hits))
        /\ UNCHANGED cache

\* One of the five requests of loadFullProfile has settled.  While the
\* Promise.all is pending its outcome is collected, and the last one
\* resolves the Promise.all; a rejection of getBusiness(id) rejects the
\* Promise.all at once: the outer catch block and the finally block run.
\* A request that settles after that changes nothing on the page.
loadFullProfileResume(call, r) ==
    LET o == ApiOutcome(call.path, call.method, r)
        f == FieldOf(call.path)
        d == Degrade(f, o)
        run == page.st.run
        got == [g \in DOMAIN run.got \cup {f} |->
                  IF g = f THEN d.value ELSE run.got[g]]
        degraded == IF d.degraded THEN run.degraded \cup {f} ELSE run.degraded
        all == DOMAIN got = DetailFields
    IN  /\ call.via = "loadFullProfile"
        /\ ApiResume(call, r)
        /\ raws' = IF run.phase = "all" /\ ~d.rejects /\ all
                   THEN raws (+) SetToBag({Raw("loadFullProfile", "GET", PJsonLD)})
                   ELSE raws
        /\ page' = [page EXCEPT
                      !.st = IF run.phase # "all" THEN @
                             ELSE IF d.rejects
                             THEN [@ EXCEPT
                                     !.error = Str("Could not load business details."),
                                     !.loading = FALSE,
                                     !.run.phase = "failed"]
                             ELSE IF all THEN Fulfilled(@, got, degraded)
                             ELSE [@ EXCEPT !.run.got = got,
                                            !.run.degraded = degraded]]

\* The fetch of the JSON-LD feeds has settled: the inner try and catch
\* blocks, then the finally block.
JsonLdResume(r) ==
    LET raw == Raw("loadFullProfile", "GET", PJsonLD)
        parsed == JsonParse(r.text)
        feeds == parsed.data
        latestFeed == JsonLdOf(feeds)
        set == /\ r.net = "response" /\ Ok(r.status) /\ parsed.ok
               /\ IsArray(feeds) /\ Length(feeds) > 0
               /\ latestFeed.ok
        failed == r.net = "error" \/ ~Ok(r.status) \/ ~set
    IN  /\ page.route = "detail"
        /\ BagIn(raw, raws)
        /\ raws' = raws (-) SetToBag({raw})
        /\ page' = [page EXCEPT
                      !.st.jsonLdData = IF set THEN latestFeed.data ELSE @,
                      !.st.loading = FALSE,
                      !.st.run.phase = "done",
                      !.st.run.degraded = IF failed THEN @ \cup {"jsonld"} ELSE @]
        /\ last' = PageStep("settle", "loadFullProfile", PJsonLD, "GET",
                            IF set THEN latestFeed.data ELSE Undefined, r, 1)
        /\ UNCHANGED <<cache, calls>>

\* getDirectoryView reads '/business/directory-view'.
PDirectory == <<"/business/directory-view">>

\* What the server answers to it: a connection error, a list of one
\* business, the empty list, an object, or a failure status.
DirectoryOutcomes ==
    {[net |-> "error", status |-> 0, text |-> ""],
     [net |-> "response", status |-> 200, text |-> "[{\"visibility_score\":7}]"],
     [net |-> "response", status |-> 200, text |-> "[]"],
     [net |-> "response", status |-> 200, text |-> "{\"name\":\"Acme\"}"],
     [net |-> "response", status |-> 500, text |-> "Internal Server Error"]}

\* data.map((biz) => ({ ...biz, hours: biz.operational_info })): every
\* item gains the property `hours`; a value without .map throws.
Formatted == [type |-> "array", repr |-> "[{visibility_score:7,hours:undefined}]"]
FormatDirectory(data) ==
    IF ~IsArray(data) THEN [ok |-> FALSE, data |-> Undefined]
    ELSE IF Length(data) = 0 THEN [ok |-> TRUE, data |-> EmptyArray]
    ELSE [ok |-> TRUE, data |-> Formatted]

\* Mutation: the page starts with the loading indicator on.
LoadingInit_Always(businesses) == TRUE

\* useState(() => businesses.length === 0)
LoadingInit(businesses) == Length(businesses) = 0

\* Directory renders for the first time: the two useState initialisers.
\* `warm` notes that the cache held a list with an item.
MountDirectory ==
    LET cached == getFromCache(PDirectory)
        businesses == IF IsArray(cached) THEN FormatDirectory(cached).data
                      ELSE EmptyArray
    IN  /\ Idle
        /\ page' = [page EXCEPT
                      !.route = "directory",
                      !.st = [businesses |-> businesses,
                              loading |-> LoadingInit(businesses),
                              run |-> [phase |-> "rendered",
                                       warm |-> IsArray(cached) /\ Length(cached) > 0]]]
        /\ last' = PageStep("mount", "directory", PDirectory, "", businesses,
                            NoRes, 0)
        /\ UNCHANGED <<cache, calls, raws>>

\* loadDirectory() from the settled promise of getDirectoryView() on, with
\* the `businesses` of the first render: the rest of the try block, the
\* catch block and the finally block.
DirectoryLoaded(st, kind, data, businesses) ==
    LET formattedData == FormatDirectory(data)
    IN  [st EXCEPT
           !.businesses = IF kind = "resolved" /\ formattedData.ok
                          THEN formattedData.data
                          ELSE IF Length(businesses) = 0 THEN EmptyArray ELSE @,
           !.loading = FALSE,
           !.run.phase = "done"]

\* The effect of the first render calls loadDirectory(), which runs up to
\* `await getDirectoryView()` on a miss and to its end on a hit.
loadDirectory ==
    LET b == ApiBegin(PDirectory, [method |-> "undefined"], "loadDirectory")
        businesses == page.st.businesses
        begun == [page.st EXCEPT
                    !.loading = IF Length(businesses) = 0 THEN TRUE ELSE @,
                    !.run.phase = "loading"]
    IN  /\ page.route = "directory"
        /\ page.st.run.phase = "rendered"
        /\ calls' = calls (+) Capture(b.suspended, [businesses |-> businesses])
        /\ page' = [page EXCEPT
                      !.st = IF b.hit
                             THEN DirectoryLoaded(begun, "resolved", b.value,
                                                  businesses)
                             ELSE begun]
        /\ last' = PageStep(IF b.hit THEN "hit" ELSE "start", "loadDirectory",
                            PDirectory, "GET", b.value, NoRes, b.sent)
        /\ UNCHANGED <<cache, raws>>

\* loadDirectory() after getDirectoryView() has settled.
loadDirectoryResume(call, r) ==
    LET o == ApiOutcome(call.path, call.method, r)
    IN  /\ call.via = "loadDirectory"
        /\ ApiResume(call, r)
        /\ page' = [page EXCEPT
                      !.st = DirectoryLoaded(@, o.kind, o.value,
                                             call.env.businesses)]
        /\ UNCHANGED raws

\* The three states of Dashboard and of BusinessProfile, with the path
\* each is read from.
ViewFields == {"business", "services", "media"}
ViewPath(field, id) ==
    CASE field = "business" -> BusinessPath(id)
      [] field = "services" -> ServicesPath(id)
      [] OTHER -> MediaPath(id)
ViewField(path) ==
    CHOOSE f \in ViewFields : \E id \in Ids : ViewPath(f, id) = path

\* The effect of Dashboard (with a user logged in) and of BusinessProfile
\* for route id: getBusiness, listServices and listMedia, each `.then` of
\* which runs at once on a hit.  `applied` notes the states that the
\* response to a request for the current id has set.
Revalidate(st, id) ==
    LET b == [f \in ViewFields |->
                ApiBegin(ViewPath(f, id), [method |-> "undefined"], "revalidate")]
        hits == {f \in ViewFields : b[f].hit}
    IN  [suspended |-> b["business"].suspended (+) b["services"].suspended
                       (+) b["media"].suspended,
         sent |-> Cardinality(ViewFields \ hits),
         st |-> [id |-> id,
                 business |-> IF b["business"].hit THEN b["business"].value
                              ELSE st.business,
                 services |-> IF b["services"].hit THEN b["services"].value
                              ELSE st.services,
                 media |-> IF b["media"].hit THEN b["media"].value ELSE st.media,
                 applied |-> hits]]

\* Dashboard or BusinessProfile mounts on business 42: the three useState
\* initialisers, then the effect.
MountView(route) ==
    LET st == [id |-> "42",
               business |-> Or(getFromCache(ViewPath("business", "42")), Null),
               services |-> Or(getFromCache(ViewPath("services", "42")), EmptyArray),
               media |-> Or(getFromCache(ViewPath("media", "42")), EmptyArray),
               applied |-> {}]
        v == Revalidate(st, "42")
    IN  /\ Idle
        /\ calls' = calls (+) v.suspended
        /\ page' = [page EXCEPT !.route = route, !.st = v.st]
        /\ last' = PageStep("mount", route, BusinessPath("42"), "GET",
                            v.st.business, NoRes, v.sent)
        /\ UNCHANGED <<cache, raws>>

\* The route id of the mounted view changes: the component keeps its
\* state and the effect, whose dependencies hold the id, runs for the new
\* id; the requests made for the old id stay in flight.  The id changes
\* again only when the requests of an earlier id have settled.
ViewRoute(id) ==
    LET v == Revalidate(page.st, id)
    IN  /\ page.route \in {"dashboard", "businessProfile"}
        /\ id # page.st.id
        /\ \A call \in BagToSet(calls) : Includes(call.path, <<page.st.id>>)
        /\ calls' = calls (+) v.suspended
        /\ page' = [page EXCEPT !.st = v.st]
        /\ last' = PageStep("route", page.route, BusinessPath(id), "GET",
                            v.st.business, NoRes, v.sent)
        /\ UNCHANGED <<cache, raws>>

\* A request of the effect has settled: `.then(setBusiness)` and the like
\* on a value, `.catch` logs a rejection.
ViewResume(call, r) ==
    LET o == ApiOutcome(call.path, call.method, r)
        f == ViewField(call.path)
        current == call.path = ViewPath(f, page.st.id)
    IN  /\ call.via = "revalidate"
        /\ ApiResume(call, r)
        /\ page' = IF o.kind = "resolved"
                   THEN [page EXCEPT
                           !.st[f] = o.value,
                           !.st.applied = IF current THEN @ \cup {f} ELSE @]
                   ELSE page
        /\ UNCHANGED raws

FormsNext ==
    \/ MountProfile /\ UNCHANGED syncVars
    \/ \E id \in Ids : ProfileRoute(id) /\ UNCHANGED syncVars
    \/ startEditing /\ UNCHANGED syncVars
    \/ onChange /\ UNCHANGED syncVars
    \/ onCancel /\ UNCHANGED syncVars
    \/ \E call \in BagToSet(calls) : \E r \in ViewOutcomes(call.path) :
         loadBusinessResume(call, r) /\ UNCHANGED syncVars
    \/ MountRegister /\ UNCHANGED syncVars
    \/ \E valid \in BOOLEAN : handleSubmit(valid) /\ UNCHANGED syncVars
    \/ \E call \in BagToSet(calls) : \E r \in RegisterOutcomes(call.path) :
         handleSubmitResume(call, r) /\ UNCHANGED syncVars

SpecForms == Init /\ [][FormsNext]_vars

DetailNext ==
    \/ MountDetail /\ UNCHANGED syncVars
    \/ \E call \in BagToSet(calls) : \E r \in ViewOutcomes(call.path) :
         loadFullProfileResume(call, r) /\ UNCHANGED syncVars
    \/ \E r \in JsonLdOutcomes : JsonLdResume(r) /\ UNCHANGED syncVars
    \/ MountDirectory /\ UNCHANGED syncVars
    \/ loadDirectory /\ UNCHANGED syncVars
    \/ \E call \in BagToSet(calls) : \E r \in DirectoryOutcomes :
         loadDirectoryResume(call, r) /\ UNCHANGED syncVars

SpecDetail == Init /\ [][DetailNext]_vars

RoutesNext ==
    \/ \E route \in {"dashboard", "businessProfile"} :
         MountView(route) /\ UNCHANGED syncVars
    \/ \E id \in Ids : ViewRoute(id) /\ UNCHANGED syncVars
    \/ \E call \in BagToSet(calls) : \E r \in ViewOutcomes(call.path) :
         ViewResume(call, r) /\ UNCHANGED syncVars

SpecRoutes == Init /\ [][RoutesNext]_vars

ViewsTypeOK ==
    /\ page.route \in {"none", "profile", "register", "detail", "directory",
                       "dashboard", "businessProfile"}
    /\ \A k \in DOMAIN cache : cache[k] \in JsonValues
    /\ BagCardinality(calls) <= MaxInFlight + 5
    /\ raws \in {EmptyBag, SetToBag({Raw("loadFullProfile", "GET", PJsonLD)})}

----------------------------------------------------------------------------
(* Properties.  Every action records itself in `last`, so a state          *)
(* predicate over `last` and `cache` speaks of the state right after the   *)
(* step `last` describes, and `last'` names the step in an action formula. *)

\* The path denotes an optional resource.
OptionalPath(p) == Includes(p, <<"operational-info">>)

\* The step just taken completed a call of api() on the network's answer.
Settled == last.ev = "settle"

\* C1: a GET call api(P) that starts while the cache holds an entry for
\* BASE+P returns exactly that entry and issues no network request.
C1_CacheHit ==
    [][\A p \in Paths :
        (/\ last'.ev \in {"start", "hit"}
         /\ last'.via = "api"
         /\ last'.method = "GET"
         /\ last'.path = p
         /\ Has(CacheKey(p)))
        => (/\ last'.ev = "hit"
            /\ last'.seen = "resolved"
            /\ last'.value = cache[CacheKey(p)]
            /\ last'.sent = 0
            /\ calls' = calls
            /\ cache' = cache)]_vars

C1_Witness == last.ev = "hit" /\ last.value = Acme /\ last.sent = 0

\* C2: right after a GET call api(P) has completed successfully with decoded
\* body v, getFromCache(P) returns v, whatever JSON value v is.
C2_HydrateReturnsFetched ==
    (Settled /\ last.method = "GET" /\ last.kind = "resolved" /\ Ok(last.res.status))
    => getFromCache(last.path) = last.value

\* C3: after a mutating call has received a success status, getFromCache
\* returns null for every path.
C3_MutationClearsAll ==
    (Settled /\ last.method \in {"POST", "PATCH", "DELETE"} /\ Ok(last.res.status))
    => \A p \in Paths : getFromCache(p) = Null

\* C4: a DELETE that receives a success status and no response body resolves
\* to its caller and leaves the cache empty.
C4_DeleteNoBody ==
    (Settled /\ last.method = "DELETE" /\ Ok(last.res.status) /\ last.res.text = "")
    => (last.kind = "resolved" /\ last.seen = "resolved" /\ cache = EmptyMap)

\* C5: a mutating call that receives a non-success status rejects with an
\* error carrying the status and the body text, on every path.
C5_MutationFailureRejects ==
    (/\ Settled
     /\ last.method \in {"POST", "PATCH", "DELETE"}
     /\ last.res.net = "response"
     /\ ~Ok(last.res.status))
    => (/\ last.kind = "rejected"
        /\ last.seen = "rejected"
        /\ last.error.status = last.res.status
        /\ last.error.text = last.res.text)

\* The step to the primed state completed a GET on an optional path with 404.
Optional404Step(p) ==
    /\ last'.ev = "settle"
    /\ last'.method = "GET"
    /\ last'.path = p
    /\ OptionalPath(p)
    /\ last'.res.status = 404

\* C6: a GET on an optional path that receives 404 resolves to null and the
\* step writes nothing to the cache, so the absence is not memoized: a GET
\* for a path whose key is not cached issues a new network request.
C6_Optional404NotMemoized ==
    [][\A p \in Paths :
        /\ Optional404Step(p)
           => (/\ last'.kind = "resolved"
               /\ last'.value = Null
               /\ last'.via = "api" => last'.seen = "resolved"
               /\ cache' = cache)
        /\ (/\ last'.ev \in {"start", "hit"}
            /\ last'.method = "GET"
            /\ last'.path = p
            /\ ~Has(CacheKey(p)))
           => (last'.ev = "start" /\ last'.sent = 1)]_vars

C6_Witness ==
    /\ Settled
    /\ last.method = "GET"
    /\ last.path = POpInfo
    /\ last.res.status = 404
    /\ last.kind = "resolved"
    /\ ~Has(CacheKey(POpInfo))

\* The answer r makes a GET for path p fail: connection error, non-success
\* status outside the optional-404 case, or an undecodable body.
FailedGet(p, r) ==
    \/ r.net = "error"
    \/ r.net = "response" /\ ~Ok(r.status) /\ ~(r.status = 404 /\ OptionalPath(p))
    \/ r.net = "response" /\ Ok(r.status) /\ ~JsonParse(r.text).ok

\* C7: a GET that fails rejects to its caller and the step leaves the cache
\* unchanged: nothing is stored and nothing is removed.
C7_FailedGetKeepsCache ==
    [][(last'.ev = "settle" /\ last'.method = "GET" /\ FailedGet(last'.path, last'.res))
       => (/\ last'.kind = "rejected"
           /\ last'.via = "api" => last'.seen = "rejected"
           /\ cache' = cache)]_vars

C7_Witness ==
    /\ Settled
    /\ last.method = "GET"
    /\ last.kind = "rejected"
    /\ last.seen = "rejected"
    /\ cache # EmptyMap

\* C8: an invocation of api() issues at most one network request, and the
\* step that takes the network's answer settles it, resolved or rejected.
C8_NoRetry ==
    [][/\ last'.sent <= 1
       /\ \A call \in BagToSet(calls') : call.sent <= 1
       /\ last'.res.net # "none"
          => (/\ last'.ev = "settle"
              /\ last'.kind \in {"resolved", "rejected"}
              /\ calls' = calls (-) SetToBag({[path |-> last'.path,
                                                method |-> last'.method,
                                                via |-> last'.via,
                                                sent |-> last'.sent]})
              /\ BagCardinality(calls') = BagCardinality(calls) - 1)]_vars

C8_Witness == Settled /\ last.kind = "rejected" /\ last.sent = 1

\* C9: prefetch(P) issues no request while BASE+P is cached, and exactly one
\* GET request for P while it is not.
C9_PrefetchRequests ==
    [][\A p \in Paths :
        (last'.ev = "prefetch" /\ last'.path = p)
        => IF Has(CacheKey(p))
           THEN last'.sent = 0 /\ calls' = calls
           ELSE /\ last'.sent = 1
                /\ calls' = calls (+) SetToBag({[path |-> p, method |-> "GET",
                                                  via |-> "prefetch", sent |-> 1]})]_vars

C9_Witness == last.ev = "prefetch" /\ last.sent = 0 /\ Has(CacheKey(last.path))

\* C10: prefetch returns normally while its request is still outstanding,
\* and a failure of that request reaches nobody and leaves the cache as it is.
C10_PrefetchFailureSilent ==
    [][/\ last'.ev = "prefetch"
          => (/\ last'.seen = "returned"
              /\ last'.sent = 1
                 => (/\ BagCardinality(calls') = BagCardinality(calls) + 1
                     /\ \E call \in BagToSet(calls') :
                          call.via = "prefetch" /\ call.path = last'.path))
       /\ (last'.ev = "settle" /\ last'.via = "prefetch" /\ last'.kind = "rejected")
          => (last'.seen = "nothing" /\ cache' = cache)]_vars

C10_Witness ==
    Settled /\ last.via = "prefetch" /\ last.kind = "rejected" /\ last.seen = "nothing"

\* C15: a mutating call through api() issues its request whatever the cache
\* holds, also when its own URL is cached, and the step that completes it
\* stores nothing: every entry left in the cache was there before.
C15_MutationBypassesCache ==
    [][/\ (/\ last'.ev \in {"start", "hit"}
           /\ last'.via = "api"
           /\ last'.method \in {"POST", "PATCH", "DELETE"})
          => (/\ last'.ev = "start"
              /\ last'.sent = 1
              /\ calls' = calls (+) SetToBag({[path |-> last'.path,
                                                method |-> last'.method,
                                                via |-> "api", sent |-> 1]}))
       /\ (/\ last'.ev = "settle"
           /\ last'.via = "api"
           /\ last'.method \in {"POST", "PATCH", "DELETE"})
          => \A k \in DOMAIN cache' : k \in DOMAIN cache /\ cache'[k] = cache[k]]_vars

C15_Witness ==
    /\ last.ev = "start"
    /\ last.via = "api"
    /\ last.method = "PATCH"
    /\ Has(CacheKey(last.path))

\* C16: uploadMediaFile issues its request whatever the cache holds; a
\* success status empties the cache, a non-success status leaves it as it
\* is, and the response is never stored.
C16_UploadClearsOnSuccess ==
    [][/\ (last'.via = "upload" /\ last'.ev # "settle")
          => (/\ last'.ev = "start"
              /\ last'.sent = 1
              /\ BagCardinality(calls') = BagCardinality(calls) + 1
              /\ cache' = cache)
       /\ (last'.via = "upload" /\ last'.ev = "settle")
          => (/\ (last'.res.net = "response" /\ Ok(last'.res.status))
                 => cache' = EmptyMap
              /\ (last'.res.net = "response" /\ ~Ok(last'.res.status))
                 => (cache' = cache /\ last'.kind = "rejected")
              /\ cache' \in {cache, EmptyMap})]_vars

C16_Witness ==
    /\ Settled
    /\ last.via = "upload"
    /\ Ok(last.res.status)
    /\ last.kind = "rejected"
    /\ cache = EmptyMap

\* C19: getFromCache, api and prefetch all work on the key BASE+P: distinct
\* paths have distinct keys, a GET for P is a hit exactly when BASE+P is
\* cached and stores its value under BASE+P, prefetch(P) issues a request
\* exactly when BASE+P is not cached, and getFromCache(P) reads BASE+P.
C19_SameKey ==
    [][\A p \in Paths :
        /\ \A q \in Paths : (CacheKey(p) = CacheKey(q)) <=> (p = q)
        /\ getFromCache(p) = IF (BASE \o p) \in DOMAIN cache
                             THEN Or(cache[BASE \o p], Null) ELSE Null
        /\ (last'.ev \in {"start", "hit"} /\ last'.method = "GET" /\ last'.path = p)
           => (last'.ev = "hit" <=> (BASE \o p) \in DOMAIN cache)
        /\ (last'.ev = "prefetch" /\ last'.path = p)
           => (last'.sent = 0 <=> (BASE \o p) \in DOMAIN cache)
        /\ (/\ last'.ev = "settle"
            /\ last'.method = "GET"
            /\ last'.path = p
            /\ last'.kind = "resolved"
            /\ Ok(last'.res.status))
           => (/\ DOMAIN cache' = DOMAIN cache \cup {BASE \o p}
               /\ cache'[BASE \o p] = last'.value
               /\ getFromCache(p)' = Or(last'.value, Null))]_vars

C19_Witness ==
    /\ Settled
    /\ last.method = "GET"
    /\ last.path = PBusiness
    /\ last.value = Acme
    /\ getFromCache(PBusiness) = Acme
    /\ getFromCache(POpInfo) = Null

----------------------------------------------------------------------------
(* Properties of SpecSync                                                  *)

\* The step just taken completed a GET on a success response with a JSON
\* body.
GotData ==
    /\ last.ev = "settle"
    /\ last.method = "GET"
    /\ last.res.net = "response"
    /\ Ok(last.res.status)
    /\ JsonParse(last.res.text).ok

\* C11: two GET calls for the same uncached key in flight together: the
\* second one also observes a miss and issues its own request; each one
\* that gets a success response with a JSON body resolves with the data of
\* its own response and leaves exactly that data under the key, whatever
\* the other one had stored there, so after both the entry is the response
\* of the one that completed last.
C11_LastWriteWins ==
    [][ /\ ( /\ last'.ev \in {"start", "hit"}
             /\ last'.method = "GET"
             /\ ~Has(CacheKey(last'.path))
             /\ \E c \in BagToSet(calls) :
                   c.method = "GET" /\ c.path = last'.path )
           => /\ last'.ev = "start"
              /\ last'.sent = 1
              /\ BagCardinality(calls') = BagCardinality(calls) + 1
        /\ GotData'
           => /\ last'.kind = "resolved"
              /\ last'.value = JsonParse(last'.res.text).data
              /\ cache' = MapSet(cache, CacheKey(last'.path), last'.value)
      ]_vars

\* The second of two concurrent GETs has completed: it found the other's
\* response under the key and replaced it with its own, a different one.
C11_Witness ==
    /\ GotData
    /\ ~sync.old
    /\ sync.over # Undefined
    /\ sync.over # last.value
    /\ cache[CacheKey(last.path)] = last.value

\* C12: once a mutation through api() has succeeded, the cache holds no
\* entry and no GET returns a value that the server produced before it
\* applied that mutation.
C12_NoStaleData ==
    /\ \A k \in DOMAIN cache : sync.fresh[k] >= sync.okGen
    /\ (last.method = "GET" /\ last.kind = "resolved")
          => sync.stamp >= sync.okGen

\* C13: when onCreate runs on after the awaited createService, the cache
\* is empty, so its refresh() misses and goes to the network; and the value
\* this refresh() resolves with was produced by the server after it applied
\* the mutation, whatever the page's earlier requests do meanwhile.
C13_MutateThenRead ==
    [][ /\ (sync'.after # -1 /\ last'.ev \in {"start", "hit"})
           => /\ cache = EmptyMap
              /\ last'.ev = "start"
              /\ last'.sent = 1
        /\ (sync'.after # -1 /\ last'.ev = "settle" /\ last'.kind = "resolved")
           => sync'.stamp >= sync'.after
      ]_vars

\* The refresh() of onCreate has resolved with data newer than the
\* mutation although an earlier refresh() of the page had meanwhile put
\* older data under the key.
C13_Witness ==
    /\ GotData
    /\ sync.after >= 1
    /\ sync.stamp >= sync.after
    /\ sync.overGen >= 0
    /\ sync.overGen < sync.after

\* C14: a GET that was in flight when a mutation cleared the cache and
\* that gets a success response with a JSON body writes this response into
\* the cache all the same.
C14_LateWrite ==
    [][ (GotData' /\ sync'.old)
           => /\ CacheKey(last'.path) \in DOMAIN cache'
              /\ cache'[CacheKey(last'.path)] = last'.value
              /\ sync'.fresh[CacheKey(last'.path)] = sync'.stamp
      ]_vars

\* After a successful mutation the cache holds a value the server produced
\* before it applied that mutation.
C14_Witness ==
    /\ GotData
    /\ sync.old
    /\ Has(CacheKey(last.path))
    /\ sync.fresh[CacheKey(last.path)] < sync.okGen

----------------------------------------------------------------------------
(* Properties of SpecPages                                                 *)

\* The step just taken mounted the page `route`.
Mounted(route) == last.ev = "mount" /\ page.route = route

\* The request of api() that the page code `via` has in flight for `path`.
PageCall(path, via) == [path |-> path, method |-> "GET", via |-> via, sent |-> 1]

\* C17: after a successful PATCH of handleUpdate the cache is empty and
\* the reload of the list goes to the network; after a successful DELETE
\* of handleDelete the cache is empty.
C17_MutationsThroughApi ==
    /\ (last.via = "handleUpdate" /\ last.method = "GET")
          => /\ cache = EmptyMap
             /\ last.ev = "start"
             /\ last.sent = 1
    /\ ( /\ last.via = "handleDelete"
         /\ last.ev = "settle"
         /\ last.res.net = "response"
         /\ Ok(last.res.status) )
          => cache = EmptyMap

\* C18: a page that mounts while the cache holds its key has a request for
\* that key in flight right after the mount.
C18_RevalidateOnMount ==
    /\ Mounted("dashboard")
          => \A p \in {PBusiness, PServices, PMedia} :
                Has(CacheKey(p)) => BagIn(PageCall(p, "dashboard"), calls)
    /\ Mounted("coupons")
          => (Has(CacheKey(PCoupons))
                => BagIn(PageCall(PCoupons, "loadCoupons"), calls))

\* C20: a mount of the JSON-LD page or of DashboardHome, after the page
\* has loaded data from the server and with no clear of the cache since,
\* starts from that data.
C20_HydrateAfterLoad ==
    /\ (Mounted("jsonld") /\ "feeds" \in DOMAIN page.loaded)
          => page.st.feeds = page.loaded["feeds"]
    /\ Mounted("home")
          => \A f \in DOMAIN page.loaded \cap
                       {"profileOk", "serviceCount", "visibilityScore"} :
                page.st[f] = page.loaded[f]

----------------------------------------------------------------------------
(* Further properties of Spec                                              *)

\* C21: a call of getFromCache returns a value (the entry or null), leaves
\* the cache as it was and leaves the set of requests in flight as it was,
\* whether the path is cached or not.
C21_PeekIsPure ==
    [][ last'.ev = "peek"
          => /\ cache' = cache
             /\ calls' = calls
             /\ last'.kind = "returned"
             /\ last'.sent = 0
             /\ last'.value \in JsonValues
      ]_vars

\* getFromCache has been called on a path that is not cached while another
\* path is, and on a path that is cached.
C21_Witness ==
    /\ last.ev = "peek"
    /\ ~Has(CacheKey(last.path))
    /\ last.value = Null
    /\ cache # EmptyMap

\* The step just taken completed a mutating call of api() that failed: the
\* connection broke or the status was not a success status.
FailedMutation ==
    /\ Settled
    /\ last.via = "api"
    /\ last.method \in MutatingMethods
    /\ (last.res.net = "error" \/ ~Ok(last.res.status))

\* C22: the completion of a mutating call of api() on a connection error
\* or on a non-success status leaves the cache exactly as it was.
C22_FailedMutationKeepsCache ==
    [][FailedMutation' => cache' = cache]_vars

\* A mutating call has failed while the cache held an entry, which is
\* still there.
C22_Witness == FailedMutation /\ cache # EmptyMap

\* The step `last` describes is the completion of a GET for the path of
\* key k on a success status with a JSON body.
GetStored(k) ==
    /\ Settled
    /\ last.via \in {"api", "prefetch"}
    /\ last.method = "GET"
    /\ k = CacheKey(last.path)
    /\ last.res.net = "response"
    /\ Ok(last.res.status)
    /\ JsonParse(last.res.text).ok

\* The step just taken stored the response of a GET under its own key.
OwnStored == GetStored(CacheKey(last.path))

\* C23: an entry appears under a key, or changes, only in the completion of
\* a GET for the path of that key on a success status, and then it is the
\* decoded body of that response; and a clear removes every entry at once.
\* Hence every entry is the decoded body of a successful GET for its own
\* path that completed after the latest clear.
C23_CacheContent ==
    [][ /\ \A k \in DOMAIN cache' :
             (k \notin DOMAIN cache \/ cache'[k] # cache[k])
                => /\ GetStored(k)'
                   /\ cache'[k] = JsonParse(last'.res.text).data
        /\ (DOMAIN cache \ DOMAIN cache' # {}) => cache' = EmptyMap
      ]_vars

\* The cache holds an entry for each path, the one just stored being the
\* decoded body of the GET that has completed.
C23_Witness ==
    /\ \A p \in Paths : Has(CacheKey(p))
    /\ OwnStored
    /\ cache[CacheKey(last.path)] = JsonParse(last.res.text).data

\* C24: a GET through api() for path P never removes an entry and never
\* changes an entry under another key than BASE+P; a hit changes nothing,
\* a miss changes nothing when it starts and, when it completes on a
\* success status with a JSON body, sets the entry of its key.
C24_GetTouchesOwnKey ==
    [][ (last'.method = "GET" /\ last'.via \in {"api", "prefetch"})
          => /\ DOMAIN cache \subseteq DOMAIN cache'
             /\ DOMAIN cache' \subseteq DOMAIN cache \cup {CacheKey(last'.path)}
             /\ \A k \in DOMAIN cache \ {CacheKey(last'.path)} :
                   cache'[k] = cache[k]
             /\ last'.ev \in {"hit", "start", "prefetch"} => cache' = cache
             /\ OwnStored' => cache'[CacheKey(last'.path)] = last'.value
      ]_vars

\* A GET has completed and stored its entry while the other path was
\* cached, and the other entry is still there.
C24_Witness ==
    /\ OwnStored
    /\ last.via = "api"
    /\ \E p \in Paths : p # last.path /\ Has(CacheKey(p))

----------------------------------------------------------------------------
(* Properties of SpecViews.                                                *)

\* A response to loadBusiness() has just been handled.
LoadBusinessSettled == last.ev = "settle" /\ last.via = "loadBusiness"

\* C25: on the Profile page the response of a background loadBusiness()
\* never overwrites the form while the user is editing: if `editing` is
\* true when the response arrives, the form is left as it was.
C25_EditingKeepsForm ==
    [][(LoadBusinessSettled' /\ page.st.editing) => page'.st.form = page.st.form]_vars

\* A session has just been established: login() was called in this step.
LoggedIn == page.st.session # NoSession

\* C26: Register.handleSubmit calls login() and navigate() only after
\* updateBusiness has succeeded, that is in the step in which the PATCH
\* resolves; a failed step establishes no session, leads nowhere and sets
\* the error message.
C26_LoginAfterUpdate ==
    [][/\ page.route = "register"
       /\ last'.ev = "settle"
       /\ last'.via \in {"createUser", "getBusinessByOwner", "updateBusiness"}
       => /\ (page.st.session = NoSession /\ LoggedIn')
               => (last'.via = "updateBusiness" /\ last'.kind = "resolved")
          /\ page'.st.navigated # page.st.navigated
               => (last'.via = "updateBusiness" /\ last'.kind = "resolved")
          /\ last'.kind = "rejected"
               => /\ page'.st.session = page.st.session
                  /\ page'.st.navigated = page.st.navigated
                  /\ page'.st.error = "Registration failed. Please try again."]_vars

\* The request of getBusiness(id) that loadFullProfile awaits has just
\* been rejected.
GetBusinessFailed ==
    /\ last.ev = "settle" /\ last.via = "loadFullProfile"
    /\ last.path = PBusiness /\ last.kind = "rejected"

\* loadFullProfile has run to its end.
Finished == page.route = "detail" /\ page.st.run.phase \in {"done", "failed"}

\* C27: loadFullProfile sets the error if and only if getBusiness(id)
\* fails: a step of BusinessDetail sets the error exactly when it is the
\* rejection of getBusiness(id) that the Promise.all awaits; once
\* loadFullProfile has finished, loading is false, and if getBusiness(id)
\* succeeded the business it returned is on display and no error is,
\* whichever of the other requests failed.
C27_ErrorIffBusinessFails ==
    /\ [][page.route = "detail" /\ last'.ev = "settle"
          => /\ page'.st.error # page.st.error
                  => GetBusinessFailed' /\ page.st.run.phase = "all"
             /\ GetBusinessFailed' /\ page.st.run.phase = "all"
                  => page'.st.error = Str("Could not load business details.")]_vars
    /\ [](Finished => ~page.st.loading)
    /\ [](page.route = "detail" /\ page.st.run.phase = "done"
            => /\ page.st.error = Null
               /\ page.st.business = page.st.run.got["business"])

\* loadFullProfile has finished with the business on display although
\* three of the other requests had failed.
C27_Witness ==
    /\ page.route = "detail"
    /\ page.st.run.phase = "done"
    /\ {"hours", "media", "jsonld"} \subseteq page.st.run.degraded
    /\ page.st.business = Acme
    /\ page.st.error = Null
    /\ ~page.st.loading

\* C28: on the Directory page the loading indicator is on only while
\* there is nothing to show; with a list of at least one business in the
\* cache at mount it is never on; and it is off once loadDirectory has
\* finished, whether the request succeeded or failed.
C28_LoadingOnlyWhenEmpty ==
    page.route = "directory"
    => /\ page.st.loading => Length(page.st.businesses) = 0
       /\ page.st.run.warm => ~page.st.loading
       /\ page.st.run.phase = "done" => ~page.st.loading

\* Directory has mounted on a cached list and reloaded it, or has mounted
\* on an empty cache and its request has failed.
C28_Witness ==
    /\ page.route = "directory"
    /\ page.st.run.phase = "done"
    /\ \/ page.st.run.warm /\ Length(page.st.businesses) > 0
       \/ last.ev = "settle" /\ last.kind = "rejected"

\* What the server holds for a state of the view under the current id.
Current(field) == JsonParse(BodyOf(ViewPath(field, page.st.id))).data

\* C29: on Dashboard and BusinessProfile, after the route id has changed
\* while requests were in flight, once every request has settled and those
\* for the current id have delivered their data, the business, services
\* and media on display are those of the current id.
C29_DisplaysCurrentId ==
    /\ page.route \in {"dashboard", "businessProfile"}
    /\ calls = EmptyBag
    /\ page.st.applied = ViewFields
    => \A f \in ViewFields : page.st[f] = Current(f)

====
